---- MODULE Spec2Model ----
(***************************************************************************)
(* Model of the fill ledger of src/main.py: the direction classifier       *)
(* (get_direction), the per-coin position/fee accumulator                  *)
(* (calculate_new_totals), the net-PnL rule (calculate_net_pnl) and the    *)
(* two reconciliation paths that write the trades_<wallet> table           *)
(* (process_new_trades and process_incremental_trades_for_wallet).         *)
(*                                                                         *)
(* Numbers.  The program computes on Python floats.  The model computes on *)
(* a fixed-point grid: sizes and positions are whole grid steps, money     *)
(* (fees, PnL, fee reserves) is counted in hundredths of a quote unit.     *)
(* Every tolerance of the source (1e-10, 1e-8, 1e-6) is smaller than one   *)
(* grid step, so a test "abs(x) < tol" is true exactly when x = 0 and a    *)
(* test "abs(x) > tol" exactly when x # 0; the tolerances are kept as      *)
(* named definitions expressed in grid steps.  A quotient that leaves the  *)
(* grid is rounded down to it.                                             *)
(***************************************************************************)
EXTENDS Integers, Sequences, FiniteSets, TLC

\* ------------------------------------------------------------------------
\* Bounds of the exploration
\* ------------------------------------------------------------------------
MaxBatch == 2      \* longest list one feed fetch returns
MaxRows == 3       \* most rows kept in one trades_<wallet> table
MaxSteps == 3      \* longest chain of fills applied to one accumulator

\* ------------------------------------------------------------------------
\* Program constants
\* ------------------------------------------------------------------------
bot_fee_bps == 5
tolerance == 1     \* 1e-10, below one grid step: abs(x) < tolerance <=> x = 0
liq_tolerance == 1 \* 1e-8, below one grid step
drift_tolerance == 0 \* 1e-6, below one grid step: abs(x) > 1e-6 <=> x # 0

Abs(x) == IF x < 0 THEN 0 - x ELSE x

\* Python values that change type along the way: None, a float, a str.
PyNone == [t |-> "none", v |-> 0]
PyFloat(x) == [t |-> "float", v |-> x]

\* bool(x) of Python for None and floats
Truthy(p) == p.t = "float" /\ p.v # 0

\* ------------------------------------------------------------------------
\* Direction tags.  A direction is the string get_direction returns; the
\* model keeps the tag and the raw inputs that the f-string embeds: dir, side,
\* startPosition and sz for the Unknown tag, sz for the Invalid tag
\* (calculate_net_pnl searches the whole string).
\* ------------------------------------------------------------------------
Direction(tag) == [tag |-> tag, dir |-> "", side |-> "", startPosition |-> 0, sz |-> 0]

\* Variant of open_directions: the list also takes the Unknown tag
open_directions_WithUnknown == {"Open Long", "Increase Long", "Open Long (Liquidation Taker)", "Increase Long (Liquidation Taker)", "Unknown"}

open_directions == {"Open Long", "Increase Long", "Open Long (Liquidation Taker)", "Increase Long (Liquidation Taker)"}
\* Variant of close_directions: the liquidation tags are not listed
close_directions_NoLiquidation == {"Close Long", "Decrease Long"}

close_directions == {"Close Long", "Decrease Long", "Close Long (Liquidation)", "Decrease Long (Partial Liquidation)"}
short_open_directions == {"Open Short", "Increase Short", "Open Short (Liquidation Taker)", "Increase Short (Liquidation Taker)"}
short_close_directions == {"Close Short", "Decrease Short", "Close Short (Liquidation)", "Decrease Short (Partial Liquidation)"}
combined_directions == {"Close Short + Open Long", "Close Long + Open Short"}

\* 'Long' in s / 'Short' in s / 'Open' in s / 'Increase' in s, tabulated for
\* the strings that occur (dir fields of the venue and direction tags).
HasLong(s) == s \in {"Open Long", "Close Long", "Long > Short", "Liquidated Isolated Long",
                     "Liquidated Cross Long",
                     "Increase Long", "Decrease Long", "Close Long (Liquidation)",
                     "Decrease Long (Partial Liquidation)", "Close Short + Open Long",
                     "Close Long + Open Short", "Open Long (Liquidation Taker)",
                     "Increase Long (Liquidation Taker)"}
HasShort(s) == s \in {"Open Short", "Close Short", "Long > Short", "Liquidated Isolated Short",
                      "Liquidated Cross Short",
                      "Increase Short", "Decrease Short", "Close Short (Liquidation)",
                      "Decrease Short (Partial Liquidation)", "Close Short + Open Long",
                      "Close Long + Open Short", "Open Short (Liquidation Taker)",
                      "Increase Short (Liquidation Taker)"}
HasOpen(s) == s \in {"Open Long", "Open Short", "Close Short + Open Long", "Close Long + Open Short",
                     "Open Long (Liquidation Taker)", "Open Short (Liquidation Taker)"}
HasIncrease(s) == s \in {"Increase Long", "Increase Short", "Increase Long (Liquidation Taker)",
                         "Increase Short (Liquidation Taker)"}

\* str.lower() on the side markers and addresses that occur
Lower(s) == CASE s = "B" -> "b"
              [] s = "A" -> "a"
              [] s = "Buy" -> "buy"
              [] s = "Sell" -> "sell"
              [] s = "0xAA" -> "0xaa"
              [] OTHER -> s

\* str(oid): the decimal digits of a non-negative integer
RECURSIVE Str(_)
Str(n) == IF n < 10 THEN <<n>> ELSE Append(Str(n \div 10), n % 10)

NoLiquidation == [method |-> "", liquidatedUser |-> ""]

\* ------------------------------------------------------------------------
\* get_direction
\* ------------------------------------------------------------------------
\* base_direction of a liquidation: the side the dir field names
LiquidationSide_FromPosition(dir_field, start_position) ==
    IF start_position >= 0 THEN "Long" ELSE "Short"

LiquidationSide(dir_field, start_position) ==
    IF HasLong(dir_field) THEN "Long"
    ELSE IF HasShort(dir_field) THEN "Short"
    ELSE IF start_position >= 0 THEN "Long" ELSE "Short"

\* The tag of a liquidation of the monitored wallet
LiquidationTag(dir_field, start_position, sz) ==
    LET base_direction == LiquidationSide(dir_field, start_position)
        full == IF start_position < 0
                THEN Abs(sz - Abs(start_position)) < liq_tolerance
                ELSE Abs(sz - start_position) < liq_tolerance
    IN  IF full
        THEN Direction(IF base_direction = "Long" THEN "Close Long (Liquidation)"
                       ELSE "Close Short (Liquidation)")
        ELSE Direction(IF base_direction = "Long" THEN "Decrease Long (Partial Liquidation)"
                       ELSE "Decrease Short (Partial Liquidation)")

\* The fallback f"Unknown (dir: ..., side: ..., startPosition: ..., sz: ...)"
UnknownTag_Bare(dir_field, side, start_position, sz) ==
    Direction("Unknown")

UnknownTag(dir_field, side, start_position, sz) ==
    [tag |-> "Unknown", dir |-> dir_field, side |-> side,
     startPosition |-> start_position, sz |-> sz]

\* Variant of PositionTag: the tag follows the side of the fill alone
PositionTag_SideOnly(dir_field, side, start_position, sz) ==
    IF side = "b" \/ side = "buy" THEN Direction("Open Long")
    ELSE IF side = "a" \/ side = "sell" THEN Direction("Open Short")
    ELSE [tag |-> "Unknown", dir |-> dir_field, side |-> side,
          startPosition |-> start_position, sz |-> sz]

\* The tag from the side of the fill and the position before it
PositionTag(dir_field, side, start_position, sz) ==
    IF side = "b" \/ side = "buy"
    THEN IF start_position <= 0
         THEN IF Abs(start_position + sz) < tolerance THEN Direction("Close Short")
              ELSE IF start_position + sz > 0
              THEN IF Abs(start_position) < tolerance THEN Direction("Open Long")
                   ELSE Direction("Close Short + Open Long")
              ELSE Direction("Decrease Short")
         ELSE Direction("Increase Long")
    ELSE IF side = "a" \/ side = "sell"
    THEN IF start_position >= 0
         THEN IF Abs(start_position - sz) < tolerance THEN Direction("Close Long")
              ELSE IF start_position - sz < 0
              THEN IF Abs(start_position) < tolerance THEN Direction("Open Short")
                   ELSE Direction("Close Long + Open Short")
              ELSE Direction("Decrease Long")
         ELSE Direction("Increase Short")
    ELSE UnknownTag(dir_field, side, start_position, sz)

\* liquidation and liquidation.get('method') == 'market' and
\* liquidation.get('liquidatedUser').lower() == wallet_address.lower()
Liquidated(fill, wallet_address) ==
    /\ fill.liquidation # NoLiquidation
    /\ fill.liquidation.method = "market"
    /\ Lower(fill.liquidation.liquidatedUser) = Lower(wallet_address)

\* Variant of get_direction: the size is not looked at first
get_direction_NoSizeCheck(fill, wallet_address) ==
    IF Liquidated(fill, wallet_address)
    THEN LiquidationTag(fill.dir, fill.startPosition, fill.sz)
    ELSE PositionTag(fill.dir, Lower(fill.side), fill.startPosition, fill.sz)

get_direction(fill, wallet_address) ==
    LET dir_field == fill.dir
        side == Lower(fill.side)
        start_position == fill.startPosition
        sz == fill.sz
    IN  IF sz <= 0 THEN [Direction("Invalid") EXCEPT !.sz = sz]
        ELSE IF Liquidated(fill, wallet_address)
        THEN LiquidationTag(dir_field, start_position, sz)
        ELSE PositionTag(dir_field, side, start_position, sz)

\* ------------------------------------------------------------------------
\* calculate_bot_fee: volume * (bps / 10000.0), in hundredths
\* ------------------------------------------------------------------------
calculate_bot_fee(size, price) ==
    (size * price * bot_fee_bps * 100) \div 10000

\* ------------------------------------------------------------------------
\* calculate_new_totals
\* ------------------------------------------------------------------------
ZeroTotals == [total_open_size_long |-> 0, total_close_size_long |-> 0,
               total_open_size_short |-> 0, total_close_size_short |-> 0,
               accumulated_fees_long |-> 0, accumulated_fees_short |-> 0]

\* Variant of OpenBranch: the fee of the fill is not put in the reserve
OpenBranch_FeeNotReserved(total_open, accumulated, size, total_trade_fee) ==
    [open |-> total_open + size, fees |-> accumulated]

\* The open branch of one side: the open counter grows by size and the
\* reserve by the fee of the fill.
OpenBranch(total_open, accumulated, size, total_trade_fee) ==
    [open |-> total_open + size, fees |-> accumulated + total_trade_fee]

\* Variant of ReleasedFees: the proportion is not capped at 1.0
ReleasedFees_Uncapped(accumulated, size, current_remaining) ==
    (accumulated * size) \div current_remaining

\* realized_fees = accumulated * min(size / current_remaining, 1.0)
ReleasedFees(accumulated, size, current_remaining) ==
    IF size >= current_remaining THEN accumulated
    ELSE (accumulated * size) \div current_remaining

\* Variant of CloseBranch: any close releases the whole reserve of the side
CloseBranch_ReleasesAll(total_open, total_close, accumulated, size) ==
    [close |-> total_close + size,
     fees |-> IF total_open - total_close > 0 /\ accumulated > 0 THEN 0 ELSE accumulated,
     realized |-> IF total_open - total_close > 0 /\ accumulated > 0 THEN accumulated ELSE 0,
     warning |-> FALSE]

\* The close branch of one side: the close counter grows by size; when the
\* side had exposure and a positive reserve, the proportional share of the
\* reserve is released, and what is left of the reserve on a full close is
\* released as well (the FEES WARNING correction).
CloseBranch(total_open, total_close, accumulated, size) ==
    LET new_close == total_close + size
        current_remaining == total_open - total_close
    IN  IF current_remaining > 0 /\ accumulated > 0
        THEN LET realized0 == ReleasedFees(accumulated, size, current_remaining)
                 left == accumulated - realized0
                 remaining_after_close == total_open - new_close
                 warn == Abs(remaining_after_close) < tolerance /\ Abs(left) > drift_tolerance
             IN  [close |-> new_close,
                  fees |-> IF warn THEN 0 ELSE left,
                  realized |-> IF warn THEN realized0 + left ELSE realized0,
                  warning |-> warn]
        ELSE [close |-> new_close, fees |-> accumulated, realized |-> 0, warning |-> FALSE]

\* Variant of CombinedBranch: the open leg takes the whole size of the fill
CombinedBranch_OpensWholeSize(total_open_x, total_close_x, fees_x, total_open_y, fees_y, size, total_trade_fee) ==
    LET close_size == Abs(total_open_x - total_close_x)
        close_fee == (total_trade_fee * close_size) \div size
    IN  [close_x |-> total_close_x + close_size,
         fees_x |-> IF fees_x > 0 THEN 0 ELSE fees_x,
         realized |-> IF fees_x > 0 THEN fees_x ELSE 0,
         open_y |-> total_open_y + size,
         fees_y |-> fees_y + total_trade_fee - close_fee,
         close_fee_only |-> close_fee]

\* Variant of CombinedBranch: the open leg is charged the whole fee of the
\* fill instead of its share (the fee of the close leg is counted twice).
CombinedBranch_WholeFeeOnOpenLeg(total_open_x, total_close_x, fees_x, total_open_y, fees_y, size, total_trade_fee) ==
    LET close_size == Abs(total_open_x - total_close_x)
        open_size == size - close_size
        close_fee == (total_trade_fee * close_size) \div size
    IN  [close_x |-> total_close_x + close_size,
         fees_x |-> IF fees_x > 0 THEN 0 ELSE fees_x,
         realized |-> IF fees_x > 0 THEN fees_x ELSE 0,
         open_y |-> IF open_size > 0 THEN total_open_y + open_size ELSE total_open_y,
         fees_y |-> IF open_size > 0 THEN fees_y + total_trade_fee ELSE fees_y,
         close_fee_only |-> close_fee]

\* The combined branch, closing side X (total_open_x, total_close_x, fees_x)
\* and opening side Y with what is left of the fill.
CombinedBranch(total_open_x, total_close_x, fees_x, total_open_y, fees_y, size, total_trade_fee) ==
    LET close_size == Abs(total_open_x - total_close_x)
        open_size == size - close_size
        close_fee == (total_trade_fee * close_size) \div size
        open_fee == total_trade_fee - close_fee
    IN  [close_x |-> total_close_x + close_size,
         fees_x |-> IF fees_x > 0 THEN 0 ELSE fees_x,
         realized |-> IF fees_x > 0 THEN fees_x ELSE 0,
         open_y |-> IF open_size > 0 THEN total_open_y + open_size ELSE total_open_y,
         fees_y |-> IF open_size > 0 THEN fees_y + open_fee ELSE fees_y,
         close_fee_only |-> close_fee]

\* abs(x) < tolerance -> 0.0
Clamp(x) == IF Abs(x) < tolerance THEN 0 ELSE x

calculate_new_totals(current_totals, direction, size, exchange_fee, bot_fee) ==
  CHOOSE new_totals \in {
    LET total_trade_fee == exchange_fee + bot_fee
        d == direction.tag
        keep == c
        ol == OpenBranch(c.total_open_size_long, c.accumulated_fees_long, size,
                         total_trade_fee)
        os == OpenBranch(c.total_open_size_short, c.accumulated_fees_short, size,
                         total_trade_fee)
        cl == CloseBranch(c.total_open_size_long, c.total_close_size_long,
                          c.accumulated_fees_long, size)
        cs == CloseBranch(c.total_open_size_short, c.total_close_size_short,
                          c.accumulated_fees_short, size)
        sl == CombinedBranch(c.total_open_size_short, c.total_close_size_short,
                             c.accumulated_fees_short, c.total_open_size_long,
                             c.accumulated_fees_long, size, total_trade_fee)
        ls == CombinedBranch(c.total_open_size_long, c.total_close_size_long,
                             c.accumulated_fees_long, c.total_open_size_short,
                             c.accumulated_fees_short, size, total_trade_fee)
        n == IF size <= 0 THEN keep
             ELSE IF d \in open_directions
             THEN [c EXCEPT !.total_open_size_long = ol.open,
                            !.accumulated_fees_long = ol.fees]
             ELSE IF d \in close_directions
             THEN [c EXCEPT !.total_close_size_long = cl.close,
                            !.accumulated_fees_long = cl.fees]
             ELSE IF d \in short_open_directions
             THEN [c EXCEPT !.total_open_size_short = os.open,
                            !.accumulated_fees_short = os.fees]
             ELSE IF d \in short_close_directions
             THEN [c EXCEPT !.total_close_size_short = cs.close,
                            !.accumulated_fees_short = cs.fees]
             ELSE IF d = "Close Short + Open Long"
             THEN [c EXCEPT !.total_close_size_short = sl.close_x,
                            !.accumulated_fees_short = sl.fees_x,
                            !.total_open_size_long = sl.open_y,
                            !.accumulated_fees_long = sl.fees_y]
             ELSE IF d = "Close Long + Open Short"
             THEN [c EXCEPT !.total_close_size_long = ls.close_x,
                            !.accumulated_fees_long = ls.fees_x,
                            !.total_open_size_short = ls.open_y,
                            !.accumulated_fees_short = ls.fees_y]
             ELSE keep
        realized_fees == IF size <= 0 THEN 0
                         ELSE IF d \in close_directions THEN cl.realized
                         ELSE IF d \in short_close_directions THEN cs.realized
                         ELSE IF d = "Close Short + Open Long" THEN sl.realized
                         ELSE IF d = "Close Long + Open Short" THEN ls.realized
                         ELSE 0
        close_fee_only == IF size <= 0 THEN PyNone
                          ELSE IF d = "Close Short + Open Long" THEN PyFloat(sl.close_fee_only)
                          ELSE IF d = "Close Long + Open Short" THEN PyFloat(ls.close_fee_only)
                          ELSE PyNone
    IN  [total_open_size_long |-> n.total_open_size_long,
         total_close_size_long |-> n.total_close_size_long,
         remaining_open_size_long |-> Clamp(n.total_open_size_long - n.total_close_size_long),
         total_open_size_short |-> n.total_open_size_short,
         total_close_size_short |-> n.total_close_size_short,
         remaining_open_size_short |-> Clamp(n.total_open_size_short - n.total_close_size_short),
         accumulated_fees_long |-> Clamp(n.accumulated_fees_long),
         accumulated_fees_short |-> Clamp(n.accumulated_fees_short),
         realized_fees |-> realized_fees,
         close_fee_only |-> close_fee_only,
         fees_warning_long |-> size > 0 /\ d \in close_directions /\ cl.warning,
         fees_warning_short |-> size > 0 /\ d \in short_close_directions /\ cs.warning]
    : c \in {current_totals}} : TRUE

\* ------------------------------------------------------------------------
\* calculate_net_pnl.  The parameter `direction` receives whatever the caller
\* passes in fifth position: a direction string, None or a float.  The
\* result is a number, or the TypeError that `'Open' in <float>` raises.
\* ------------------------------------------------------------------------
PyStr(direction) == [t |-> "str", v |-> 0, d |-> direction]

Raised == [ok |-> FALSE, v |-> 0]
Returned(x) == [ok |-> TRUE, v |-> x]

\* 'Open' in direction or 'Increase' in direction, for a direction string
MentionsGrowth(direction) ==
    \/ HasOpen(direction.tag) \/ HasIncrease(direction.tag)
    \/ direction.tag = "Unknown" /\ (HasOpen(direction.dir) \/ HasIncrease(direction.dir))

\* Variant of calculate_net_pnl: the realized fees are left out of the fees
\* of a closing fill.
calculate_net_pnl_WithoutRealized(closed_pnl, exchange_fee, bot_fee, realized_fees, direction, close_fee_only) ==
    LET total_fees == IF close_fee_only.t # "none"
                      THEN close_fee_only.v + realized_fees
                      ELSE exchange_fee + bot_fee
        net_pnl == closed_pnl - total_fees
    IN  IF direction.t = "str"
        THEN IF MentionsGrowth(direction.d) THEN Returned(0) ELSE Returned(net_pnl)
        ELSE IF Truthy(direction)
        THEN Raised
        ELSE Returned(net_pnl)

calculate_net_pnl(closed_pnl, exchange_fee, bot_fee, realized_fees, direction, close_fee_only) ==
    LET total_fees == IF close_fee_only.t # "none"
                      THEN close_fee_only.v + realized_fees
                      ELSE exchange_fee + bot_fee + realized_fees
        net_pnl == closed_pnl - total_fees
    IN  IF direction.t = "str"
        THEN IF MentionsGrowth(direction.d) THEN Returned(0) ELSE Returned(net_pnl)
        ELSE IF Truthy(direction)
        THEN Raised
        ELSE Returned(net_pnl)

\* ------------------------------------------------------------------------
\* The store: one trades_<wallet> table per wallet, a sequence of rows in
\* insertion (id) order.
\* ------------------------------------------------------------------------
\* Variant of KeyMatches: size and startPosition bound in the wrong order
KeyMatches_SwappedBindings(row, oid, coin, timestamp, size, start_position) ==
    /\ row.oid = oid
    /\ row.coin = coin
    /\ row.timestamp = timestamp
    /\ row.size = start_position
    /\ row.startPosition = size

\* oid = ? AND coin = ? AND timestamp = ? AND size = ? AND startPosition = ?
KeyMatches(row, oid, coin, timestamp, size, start_position) ==
    /\ row.oid = oid
    /\ row.coin = coin
    /\ row.timestamp = timestamp
    /\ row.size = size
    /\ row.startPosition = start_position

\* Variant of UniqueViolation: the table is created without the constraint
UniqueViolation_NoConstraint(rows, row) == FALSE

\* UNIQUE(oid, coin, timestamp, size, startPosition): would inserting row
\* violate the constraint of the table
UniqueViolation(rows, row) ==
    \E i \in 1..Len(rows) :
        KeyMatches(rows[i], row.oid, row.coin, row.timestamp, row.size, row.startPosition)

\* SELECT MAX(timestamp) ...; result[0] if result[0] else 0
Max(S) == CHOOSE x \in S : \A y \in S : y <= x
get_last_trade_timestamp(rows) ==
    IF Len(rows) = 0 THEN 0 ELSE Max({rows[i].timestamp : i \in 1..Len(rows)})

trade_exists_in_db(rows, oid, coin, timestamp, size, start_position) ==
    Cardinality({i \in 1..Len(rows) :
                   KeyMatches(rows[i], oid, coin, timestamp, size, start_position)}) > 0

\* ... WHERE coin = ? ORDER BY id DESC LIMIT 1
get_current_totals(rows, coin) ==
    LET ids == {i \in 1..Len(rows) : rows[i].coin = coin}
    IN  IF ids = {} THEN ZeroTotals
        ELSE LET r == rows[Max(ids)]
             IN  [total_open_size_long |-> r.total_open_size_long,
                  total_close_size_long |-> r.total_close_size_long,
                  total_open_size_short |-> r.total_open_size_short,
                  total_close_size_short |-> r.total_close_size_short,
                  accumulated_fees_long |-> r.accumulated_fees_long,
                  accumulated_fees_short |-> r.accumulated_fees_short]

\* The row an INSERT writes.  exchange_fee and bot_fee are given by the
\* incremental path only; the full sync leaves them at their DEFAULT 0.0.
Row(id, fill, direction, new_totals, net_pnl, exchange_fee, bot_fee) ==
    [id |-> id, timestamp |-> fill.time, oid |-> Str(fill.oid), coin |-> fill.coin,
     price |-> fill.px, size |-> fill.sz, side |-> fill.side, direction |-> direction,
     closedPnl |-> fill.closedPnl, fee |-> fill.fee,
     exchange_fee |-> exchange_fee, bot_fee |-> bot_fee,
     startPosition |-> fill.startPosition,
     total_open_size_long |-> new_totals.total_open_size_long,
     total_close_size_long |-> new_totals.total_close_size_long,
     remaining_open_size_long |-> new_totals.remaining_open_size_long,
     total_open_size_short |-> new_totals.total_open_size_short,
     total_close_size_short |-> new_totals.total_close_size_short,
     remaining_open_size_short |-> new_totals.remaining_open_size_short,
     accumulated_fees_long |-> new_totals.accumulated_fees_long,
     accumulated_fees_short |-> new_totals.accumulated_fees_short,
     realized_fees |-> new_totals.realized_fees,
     net_pnl |-> net_pnl]

\* sorted(items, key=...): stable, ascending on the pair key[i]
StableSort(items, key) ==
    LET n == Len(items)
        Less(a, b) == a[1] < b[1] \/ (a[1] = b[1] /\ a[2] < b[2])
        Before(k, j) == Less(key[k], key[j]) \/ (key[k] = key[j] /\ k < j)
        rank(j) == 1 + Cardinality({k \in 1..n : Before(k, j)})
    IN  [i \in 1..n |-> items[CHOOSE j \in 1..n : rank(j) = i]]

\* [f for f in items if keep(f)], order kept
RECURSIVE SelectIdx(_, _)
SelectIdx(n, keep) ==
    IF n = 0 THEN <<>>
    ELSE IF n \in keep THEN Append(SelectIdx(n - 1, keep), n) ELSE SelectIdx(n - 1, keep)

\* ------------------------------------------------------------------------
\* process_incremental_trades_for_wallet
\*   rows        the table of the wallet when the cycle starts
\*   user_fills  the list info.user_fills(wallet) returned
\*   fail        the positions of the processing order at which the INSERT
\*               statement is rejected by the store (I/O error, locked file)
\* ------------------------------------------------------------------------

\* The filter loop: fills at or after the watermark whose key is not stored
\* Variant of new_trades: a fill passes only when it is newer than the last
\* stored timestamp
new_trades_StrictWatermark(rows, user_fills) ==
    LET last_timestamp == get_last_trade_timestamp(rows)
        keep == {i \in 1..Len(user_fills) :
                   /\ user_fills[i].time > last_timestamp
                   /\ ~trade_exists_in_db(rows, Str(user_fills[i].oid), user_fills[i].coin,
                                          user_fills[i].time, user_fills[i].sz,
                                          user_fills[i].startPosition)}
        idx == SelectIdx(Len(user_fills), keep)
    IN  [i \in 1..Len(idx) |-> user_fills[idx[i]]]

new_trades(rows, user_fills) ==
    LET last_timestamp == get_last_trade_timestamp(rows)
        keep == {i \in 1..Len(user_fills) :
                   /\ user_fills[i].time >= last_timestamp
                   /\ ~trade_exists_in_db(rows, Str(user_fills[i].oid), user_fills[i].coin,
                                          user_fills[i].time, user_fills[i].sz,
                                          user_fills[i].startPosition)}
        idx == SelectIdx(Len(user_fills), keep)
    IN  [i \in 1..Len(idx) |-> user_fills[idx[i]]]

\* sorted(new_trades, key=lambda x: x.get('time', 0))
new_trades_sorted(trades) ==
    StableSort(trades, [i \in 1..Len(trades) |-> <<trades[i].time, 0>>])

\* Variant of IncrementalUnit: the unit is counted before the INSERT is
\* executed, so a rejected INSERT leaves a counted fill that is not stored.
IncrementalUnit_CountedBeforeInsert(rows, wallet, fill, rejected) ==
    [ok |-> TRUE,
     rows |-> IF rejected THEN rows
              ELSE Append(rows, Row(Len(rows) + 1, fill, get_direction(fill, wallet),
                                    calculate_new_totals(get_current_totals(rows, fill.coin),
                                                         get_direction(fill, wallet), fill.sz,
                                                         fill.fee,
                                                         calculate_bot_fee(fill.sz, fill.px)),
                                    0, fill.fee, calculate_bot_fee(fill.sz, fill.px)))]

\* One pass of the loop body for one fill: the classify / totals / net PnL /
\* INSERT unit.  ok is FALSE when the body raised and the except clause
\* skipped the fill.
IncrementalUnit(rows, wallet, fill, rejected) ==
  CHOOSE unit \in {
    LET bot_fee == calculate_bot_fee(fill.sz, fill.px)
        direction == get_direction(fill, wallet)
        close_fee_only == new_totals.close_fee_only
        net_pnl == calculate_net_pnl(fill.closedPnl, fill.fee, bot_fee,
                                     new_totals.realized_fees, close_fee_only, PyNone)
        row == Row(Len(rows) + 1, fill, direction, new_totals, net_pnl.v, fill.fee, bot_fee)
    IN  IF ~net_pnl.ok \/ rejected \/ UniqueViolation(rows, row)
        THEN [ok |-> FALSE, rows |-> rows]
        ELSE [ok |-> TRUE, rows |-> Append(rows, row)]
    : new_totals \in {calculate_new_totals(get_current_totals(rows, fill.coin),
                                           get_direction(fill, wallet), fill.sz, fill.fee,
                                           calculate_bot_fee(fill.sz, fill.px))}} : TRUE

\* for fill in new_trades_sorted: try ... except: continue
RECURSIVE IncrementalLoop(_, _, _, _, _)
IncrementalLoop(acc, wallet, trades, i, fail) ==
    IF i > Len(trades) THEN acc
    ELSE CHOOSE done \in {IncrementalLoop(next, wallet, trades, i + 1, fail) :
             next \in {IF u.ok
                       THEN [acc EXCEPT !.rows = u.rows, !.processed_count = @ + 1,
                                        !.attempted = @ \cup {trades[i]}]
                       ELSE [acc EXCEPT !.failed = @ \cup {trades[i]},
                                        !.attempted = @ \cup {trades[i]}] :
                       u \in {IncrementalUnit(acc.rows, wallet, trades[i], i \in fail)}}} : TRUE

process_incremental_trades_for_wallet(rows, wallet, user_fills, fail) ==
  CHOOSE result \in {
    [rows |-> done.rows,
     ret |-> done.processed_count,
     attempted |-> done.attempted,
     failed |-> done.failed]
    : done \in {IncrementalLoop([rows |-> rows, processed_count |-> 0, failed |-> {},
                                  attempted |-> {}],
                                 wallet, trades, 1, fail) :
                trades \in {new_trades_sorted(new_trades(rows, user_fills))}}} : TRUE

\* ------------------------------------------------------------------------
\* process_new_trades, the body of its loop for one wallet
\* ------------------------------------------------------------------------

\* sorted(user_fills, key=lambda x: (x.get('time', 0), int(x.get('oid', 0))))
user_fills_sorted(user_fills) ==
    StableSort(user_fills, [i \in 1..Len(user_fills) |-> <<user_fills[i].time, user_fills[i].oid>>])

\* The directions for which process_new_trades calls check_negative_pnl
closing_directions == {"Close Long", "Close Short", "Decrease Long", "Decrease Short",
                       "Close Long + Open Short", "Close Short + Open Long"}

\* check_negative_pnl(net_pnl, ...), sent being the oids of sent_trades_<w>:
\* for a net PnL below -1e-8 whose oid is not in sent_trades it records the
\* oid and commits the connection.  commits: the call reached conn.commit().
check_negative_pnl(net_pnl, oid, sent) ==
    IF net_pnl < 0 /\ oid \notin sent
    THEN [commits |-> TRUE, sent |-> sent \cup {oid}]
    ELSE [commits |-> FALSE, sent |-> sent]

\* One pass of the loop body of process_new_trades for one fill.  skipped:
\* the key is already stored; negative: the row is stored and the body goes
\* on to call check_negative_pnl.
FullSyncUnit(rows, wallet, fill, rejected) ==
  CHOOSE unit \in {
    LET bot_fee == calculate_bot_fee(fill.sz, fill.px)
        direction == get_direction(fill, wallet)
        exists == Cardinality({i \in 1..Len(rows) :
                      KeyMatches(rows[i], Str(fill.oid), fill.coin, fill.time, fill.sz,
                                 fill.startPosition)}) > 0
        close_fee_only == new_totals.close_fee_only
        net_pnl == calculate_net_pnl(fill.closedPnl, fill.fee, bot_fee,
                                     new_totals.realized_fees, PyStr(direction), close_fee_only)
        row == Row(Len(rows) + 1, fill, direction, new_totals, net_pnl.v, 0, 0)
    IN  IF exists THEN [ok |-> FALSE, skipped |-> TRUE, rows |-> rows, checked |-> FALSE,
                            net_pnl |-> 0]
        ELSE IF ~net_pnl.ok \/ rejected \/ UniqueViolation(rows, row)
        THEN [ok |-> FALSE, skipped |-> FALSE, rows |-> rows, checked |-> FALSE,
              net_pnl |-> 0]
        ELSE [ok |-> TRUE, skipped |-> FALSE, rows |-> Append(rows, row),
              checked |-> direction.tag \in closing_directions, net_pnl |-> net_pnl.v]
    : new_totals \in {calculate_new_totals(get_current_totals(rows, fill.coin),
                                           get_direction(fill, wallet), fill.sz, fill.fee,
                                           calculate_bot_fee(fill.sz, fill.px))}} : TRUE

\* for fill in user_fills_sorted: try ... except: continue
RECURSIVE FullSyncLoop(_, _, _, _, _)
FullSyncLoop(acc, wallet, fills, i, fail) ==
    IF i > Len(fills) THEN acc
    ELSE CHOOSE done \in {FullSyncLoop(next, wallet, fills, i + 1, fail) :
             next \in {IF u.ok
                       THEN LET c == IF u.checked
                                     THEN check_negative_pnl(u.net_pnl, Str(fills[i].oid),
                                                             acc.sent)
                                     ELSE [commits |-> FALSE, sent |-> acc.sent]
                            IN  [acc EXCEPT !.rows = u.rows, !.new_trades_count = @ + 1,
                                            !.attempted = @ \cup {fills[i]},
                                            !.sent = c.sent,
                                            !.committed = IF c.commits THEN u.rows ELSE @]
                       ELSE IF u.skipped THEN acc
                       ELSE [acc EXCEPT !.failed = @ \cup {fills[i]},
                                        !.attempted = @ \cup {fills[i]}] :
                       u \in {FullSyncUnit(acc.rows, wallet, fills[i], i \in fail)}}} : TRUE

\* Variant of process_new_trades: the pass rebuilds the table from the
\* fetched list instead of adding to it.
process_new_trades_Rebuilds(rows, wallet, user_fills, fail, sent) ==
    [rows |-> FullSyncLoop([rows |-> <<>>, new_trades_count |-> 0, failed |-> {},
                            attempted |-> {}, sent |-> sent, committed |-> <<>>],
                           wallet, user_fills_sorted(user_fills), 1, fail).rows,
     ret |-> Len(user_fills),
     attempted |-> {user_fills[i] : i \in 1..Len(user_fills)},
     failed |-> {},
     sent |-> sent,
     committed |-> <<>>]

\*   sent       the oids of sent_trades_<wallet> when the pass starts
\* The result also gives sent_trades afterwards and committed, the rows of
\* the table as of the last conn.commit() the pass itself executed (the rows
\* it started with if it executed none).
process_new_trades(rows, wallet, user_fills, fail, sent) ==
  CHOOSE result \in {
    [rows |-> done.rows,
     ret |-> done.new_trades_count,
     attempted |-> done.attempted,
     failed |-> done.failed,
     sent |-> done.sent,
     committed |-> done.committed]
    : done \in {FullSyncLoop([rows |-> rows, new_trades_count |-> 0, failed |-> {},
                               attempted |-> {}, sent |-> sent, committed |-> rows],
                              wallet, fills, 1, fail) :
                fills \in {user_fills_sorted(user_fills)}}} : TRUE

\* ------------------------------------------------------------------------
\* The feed.  info.user_fills(wallet) returns a list of fills of the wallet
\* in any order, with repetitions, or raises.  A fill is the dict of the
\* venue with its numeric fields already on the grid.
\* ------------------------------------------------------------------------
Fill(oid, coin, time, px, sz, side, startPosition, closedPnl, fee, dir, liquidation) ==
    [oid |-> oid, coin |-> coin, time |-> time, px |-> px, sz |-> sz, side |-> side,
     startPosition |-> startPosition, closedPnl |-> closedPnl, fee |-> fee, dir |-> dir,
     liquidation |-> liquidation]

\* Fills of wallet 0xaa on BTC: a long of 10 opened and closed, a short of 5
\* opened in the same millisecond as the close, and then a buy of 8 that
\* flips the short into a long.
FillOpenLong == Fill(1, "BTC", 1, 100, 10, "B", 0, 0, 50, "Open Long", NoLiquidation)
FillCloseLong == Fill(2, "BTC", 2, 110, 10, "A", 10, 10000, 55, "Close Long", NoLiquidation)
FillOpenShort == Fill(3, "BTC", 2, 80, 5, "A", 0, 0, 20, "Open Short", NoLiquidation)
FillFlip == Fill(4, "BTC", 3, 100, 8, "B", -5, -100, 40, "Short > Long", NoLiquidation)

\* Fills of wallet 0xbb on ETH: a short of 4 opened, then closed at a loss.
FillEthShort == Fill(11, "ETH", 1, 50, 4, "A", 0, 0, 10, "Open Short", NoLiquidation)
FillEthClose == Fill(12, "ETH", 2, 60, 4, "B", -4, -4000, 12, "Close Short", NoLiquidation)

\* Fills of wallet 0xcc on SOL that the classifier does not recognise: one
\* of size 0 and one without a side marker, both with a closedPnl and a fee.
FillSolZero == Fill(21, "SOL", 1, 20, 0, "B", 0, 300, 5, "", NoLiquidation)
FillSolNoSide == Fill(22, "SOL", 2, 20, 3, "", 0, 300, 5, "Open Long", NoLiquidation)

FillsAA == {FillOpenLong, FillCloseLong, FillOpenShort, FillFlip}
FillsBB == {FillEthShort, FillEthClose}
FillsCC == {FillSolZero, FillSolNoSide}

\* All lists of at most n elements of S
RECURSIVE SeqsUpTo(_, _)
SeqsUpTo(S, n) ==
    IF n = 0 THEN {<<>>}
    ELSE LET shorter == SeqsUpTo(S, n - 1)
         IN  shorter \cup {Append(q, x) : q \in {r \in shorter : Len(r) = n - 1}, x \in S}

FeedsAA == SeqsUpTo(FillsAA, MaxBatch)
FeedsBB == SeqsUpTo(FillsBB, MaxBatch)
FeedsCC == SeqsUpTo(FillsCC, MaxBatch)
Feeds(w) == IF w = "0xaa" THEN FeedsAA ELSE IF w = "0xbb" THEN FeedsBB ELSE FeedsCC

\* ------------------------------------------------------------------------
\* State
\* ------------------------------------------------------------------------
VARIABLES
    WALLETS,    \* the wallet list read from the environment at start-up
    store,      \* store[w]: the rows of trades_<w>, in id order
    pc,         \* "sync": continuous_monitoring runs process_new_trades;
                \* "monitor": it runs the incremental cycles
    turn,       \* index in WALLETS of the wallet the running loop handles
    at,         \* position in the handling of that wallet: "idle" before
                \* info.user_fills is called, "fetched" when it has returned,
                \* "returned" when the handling of the wallet is over
    user_fills, \* the list the fetch returned (local of the handler)
    last,       \* what the handling of the wallet did (its locals and result)
    pending,    \* pending[w]: fills whose unit failed in an incremental cycle
                \* of w, that are not in the table and that no later fetch
                \* has reported yet (history)
    sent_trades,\* sent_trades[w]: the oids of sent_trades_<w>
    durable,    \* durable[w]: the rows of trades_<w> that a conn.commit() has
                \* covered; store[w] is what the open connection reads
    died,       \* how the process last died inside the handling of a wallet,
                \* and what it was doing (history); NoDeath if it never did
    totals,     \* ledger chain: the accumulator of one (wallet, coin)
    steps,      \* ledger chain: number of fills applied
    entry,      \* ledger chain: the last fill applied and what it produced
    added,      \* ledger chain: fees ever added to each side's reserve
    released,   \* ledger chain: realized fees ever released from each side
    charged     \* ledger chain: TRUE as long as every fill applied had
                \* size > 0 and exchange fee + bot fee >= 0 (history)

vars == <<WALLETS, store, pc, turn, at, user_fills, last, pending, sent_trades, durable,
          died, totals, steps, entry, added, released, charged>>
storeVars == <<WALLETS, store, pc, turn, at, user_fills, last, pending, sent_trades,
               durable, died>>
ledgerVars == <<totals, steps, entry, added, released, charged>>
Wallets == {WALLETS[i] : i \in 1..Len(WALLETS)}

NoStep == [op |-> "none", wallet |-> "", fetched |-> FALSE, feed |-> <<>>, fail |-> {},
           before |-> <<>>, ret |-> 0, attempted |-> {}, failed |-> {}, retry |-> {}]

NoEntry == [fill |-> Fill(0, "", 0, 0, 0, "", 0, 0, 0, "", NoLiquidation),
            direction |-> Direction(""), before |-> ZeroTotals,
            new_totals |-> calculate_new_totals(ZeroTotals, Direction(""), 0, 0, 0),
            bot_fee |-> 0, net_pnl |-> 0, path |-> ""]

Sides == {"long", "short"}

NoDeath == [cause |-> "none", op |-> "none", wallet |-> "", feed |-> <<>>,
            before |-> <<>>, sent |-> {}, inflight |-> NoEntry.fill, durable |-> <<>>,
            notified |-> {}]

InitLedger ==
    /\ totals = ZeroTotals
    /\ steps = 0
    /\ entry = NoEntry
    /\ added = [s \in Sides |-> 0]
    /\ released = [s \in Sides |-> 0]
    /\ charged = TRUE

InitStore(wallet_list) ==
    /\ WALLETS = wallet_list
    /\ store = [w \in {wallet_list[i] : i \in 1..Len(wallet_list)} |-> <<>>]
    /\ pc = "sync"
    /\ turn = 1
    /\ at = "idle"
    /\ user_fills = <<>>
    /\ last = NoStep
    /\ pending = [w \in {wallet_list[i] : i \in 1..Len(wallet_list)} |-> {}]
    /\ sent_trades = [w \in {wallet_list[i] : i \in 1..Len(wallet_list)} |-> {}]
    /\ durable = [w \in {wallet_list[i] : i \in 1..Len(wallet_list)} |-> <<>>]
    /\ died = NoDeath

Init == InitStore(<<"0xaa">>) /\ InitLedger

\* Start-up with two wallets in the environment
InitAccounts == InitStore(<<"0xbb", "0xcc">>) /\ InitLedger

\* Start-up with the wallet 0xbb alone
InitCrash == InitStore(<<"0xbb">>) /\ InitLedger

\* Fills of a fetched list whose key the table does not hold
Unstored(rows, fills) ==
    {f \in {fills[i] : i \in 1..Len(fills)} :
        ~\E j \in 1..Len(rows) :
            KeyMatches(rows[j], Str(f.oid), f.coin, f.time, f.sz, f.startPosition)}

\* user_fills = info.user_fills(wallet) returns a list.  The table is kept
\* within MaxRows rows.
Fetch ==
    /\ at = "idle"
    /\ \E feed \in Feeds(WALLETS[turn]) :
         /\ Len(store[WALLETS[turn]]) + Cardinality(Unstored(store[WALLETS[turn]], feed)) <= MaxRows
         /\ user_fills' = feed
    /\ at' = "fetched"
    /\ UNCHANGED <<WALLETS, store, pc, turn, last, pending, sent_trades, durable, died>>
    /\ UNCHANGED ledgerVars

\* Variant of FetchFails: the exception of the fetch is not caught by the
\* cycle and ends the monitoring loop; the process starts over.
FetchFails_EndsMonitoring ==
    /\ at = "idle"
    /\ at' = "returned"
    /\ pc' = "sync"
    /\ last' = [NoStep EXCEPT !.op = IF pc = "sync" THEN "sync" ELSE "incremental",
                              !.wallet = WALLETS[turn],
                              !.before = store[WALLETS[turn]]]
    /\ UNCHANGED <<WALLETS, store, turn, user_fills, pending, sent_trades, durable, died>>
    /\ UNCHANGED ledgerVars

\* info.user_fills(wallet) raises: process_new_trades logs and goes to the
\* next wallet, process_incremental_trades_for_wallet returns 0.
FetchFails ==
    /\ at = "idle"
    /\ at' = "returned"
    /\ last' = [NoStep EXCEPT !.op = IF pc = "sync" THEN "sync" ELSE "incremental",
                              !.wallet = WALLETS[turn],
                              !.before = store[WALLETS[turn]]]
    /\ UNCHANGED <<WALLETS, store, pc, turn, user_fills, pending, sent_trades, durable, died>>
    /\ UNCHANGED ledgerVars

\* process_new_trades: the loop body for one wallet, after the fetch
SyncWallet ==
    /\ pc = "sync"
    /\ at = "fetched"
    /\ LET w == WALLETS[turn]
       IN  \E fail \in SUBSET (1..Len(user_fills)) :
           \E r \in {process_new_trades(store[w], w, user_fills, fail, sent_trades[w])} :
                 /\ store' = [store EXCEPT ![w] = r.rows]
                 /\ sent_trades' = [sent_trades EXCEPT ![w] = r.sent]
                 /\ durable' = IF r.committed # store[w]
                               THEN [store EXCEPT ![w] = r.committed]
                               ELSE durable
                 /\ last' = [op |-> "sync", wallet |-> w, fetched |-> TRUE,
                             feed |-> user_fills, fail |-> fail, before |-> store[w],
                             ret |-> r.ret, attempted |-> r.attempted,
                             failed |-> r.failed, retry |-> {}]
                 /\ pending' = [pending EXCEPT ![w] = {}]
    /\ at' = "returned"
    /\ UNCHANGED <<WALLETS, pc, turn, user_fills, died>>
    /\ UNCHANGED ledgerVars

\* Variant of IncrementalWallet: the table name does not depend on the
\* wallet, every wallet reads and writes the same rows.
IncrementalWallet_SharedTable ==
    /\ pc = "monitor"
    /\ at = "fetched"
    /\ LET w == WALLETS[turn]
       IN  \E fail \in SUBSET (1..Len(new_trades(store[w], user_fills))) :
           \E r \in {process_incremental_trades_for_wallet(store[w], w, user_fills, fail)} :
                 /\ store' = [x \in Wallets |-> r.rows]
                 /\ durable' = [x \in Wallets |-> r.rows]
                 /\ last' = [op |-> "incremental", wallet |-> w, fetched |-> TRUE,
                             feed |-> user_fills, fail |-> fail, before |-> store[w],
                             ret |-> r.ret, attempted |-> r.attempted,
                             failed |-> r.failed, retry |-> {}]
    /\ at' = "returned"
    /\ UNCHANGED <<WALLETS, pc, turn, user_fills, pending, sent_trades, died>>
    /\ UNCHANGED ledgerVars

\* process_incremental_trades_for_wallet, after the fetch
IncrementalWallet ==
    /\ pc = "monitor"
    /\ at = "fetched"
    /\ LET w == WALLETS[turn]
           reported == {user_fills[i] : i \in 1..Len(user_fills)}
       IN  \E fail \in SUBSET (1..Len(new_trades(store[w], user_fills))) :
           \E r \in {process_incremental_trades_for_wallet(store[w], w, user_fills, fail)} :
                 /\ store' = [store EXCEPT ![w] = r.rows]
                 /\ durable' = [store EXCEPT ![w] = r.rows]
                 /\ last' = [op |-> "incremental", wallet |-> w, fetched |-> TRUE,
                             feed |-> user_fills, fail |-> fail, before |-> store[w],
                             ret |-> r.ret, attempted |-> r.attempted,
                             failed |-> r.failed, retry |-> pending[w] \cap reported]
                 /\ pending' = [pending EXCEPT ![w] =
                                  {f \in (@ \ reported) \cup r.failed :
                                      Unstored(r.rows, <<f>>) # {}}]
    /\ at' = "returned"
    /\ UNCHANGED <<WALLETS, pc, turn, user_fills, sent_trades, died>>
    /\ UNCHANGED ledgerVars

\* The handling of the wallet is over: the loop `for wallet in WALLETS` moves
\* on; after the last wallet of the full sync continuous_monitoring calls
\* conn.commit() and the monitoring cycles take over.
Return ==
    /\ at = "returned"
    /\ at' = "idle"
    /\ user_fills' = <<>>
    /\ last' = NoStep
    /\ turn' = IF turn = Len(WALLETS) THEN 1 ELSE turn + 1
    /\ pc' = IF turn = Len(WALLETS) THEN "monitor" ELSE pc
    /\ durable' = IF pc = "sync" /\ turn = Len(WALLETS) THEN store ELSE durable
    /\ UNCHANGED <<WALLETS, store, pending, sent_trades, died>>
    /\ UNCHANGED ledgerVars

\* The process is stopped between two cycles and started again:
\* continuous_monitoring begins with a full sync.
Restart ==
    /\ pc = "monitor"
    /\ at = "idle"
    /\ turn = 1
    /\ pc' = "sync"
    /\ UNCHANGED <<WALLETS, store, turn, at, user_fills, last, pending, sent_trades, durable, died>>
    /\ UNCHANGED ledgerVars

Next == Fetch \/ FetchFails \/ SyncWallet \/ IncrementalWallet \/ Return \/ Restart

Spec == Init /\ [][Next]_vars

\* The same program started with two wallets
SpecAccounts == InitAccounts /\ [][Next]_vars

\* The process ends while the loop over the fills of a wallet runs: k units
\* are complete and the unit of fill k + 1 is in flight.  The connection is
\* closed (by the finally of __main__, or with the process) and SQLite
\* discards what no conn.commit() covered: the incremental cycle commits
\* after its loop only, the full sync inside check_negative_pnl and after
\* its last wallet only.  The end comes before or after the INSERT, the
\* notification and the commit the unit in flight may execute.  No INSERT is
\* rejected in the run that ends.  notified holds the fills for which the
\* incremental cycle has called send_telegram_message.
Dies(cause, where) ==
    /\ at = "fetched"
    /\ died = NoDeath
    /\ LET w == WALLETS[turn]
           fills == IF pc = "sync" THEN user_fills_sorted(user_fills)
                    ELSE new_trades_sorted(new_trades(store[w], user_fills))
       IN  \E k \in 0..(Len(fills) - 1) : \E j \in {k, k + 1} :
           \E r \in {IF pc = "sync"
                      THEN process_new_trades(store[w], w, SubSeq(fills, 1, j), {},
                                              sent_trades[w])
                      ELSE [committed |-> store[w], sent |-> sent_trades[w]]} :
           \E c \in {IF pc = "sync"
                      THEN [attempted |-> {}, failed |-> {}]
                      ELSE process_incremental_trades_for_wallet(
                               store[w], w, SubSeq(fills, 1, j), {})} :
                 /\ store' = IF pc = "sync" /\ r.committed # store[w]
                             THEN [store EXCEPT ![w] = r.committed]
                             ELSE durable
                 /\ durable' = store'
                 /\ sent_trades' = [sent_trades EXCEPT ![w] = r.sent]
                 /\ died' = [cause |-> cause,
                             op |-> IF pc = "sync" THEN "sync" ELSE "incremental",
                             wallet |-> w, feed |-> user_fills, before |-> store[w],
                             sent |-> sent_trades[w], inflight |-> fills[k + 1],
                             durable |-> store'[w],
                             notified |-> {f \in c.attempted \ c.failed :
                                             get_direction(f, w).tag \in closing_directions}]
    /\ at' = where
    /\ user_fills' = <<>>
    /\ last' = NoStep
    /\ UNCHANGED <<WALLETS, pc, turn, pending>>
    /\ UNCHANGED ledgerVars

\* The process is killed or the machine stops
Killed == Dies("kill", "killed")

\* SIGINT or SIGTERM: signal_handler calls sys.exit(0); SystemExit is not an
\* Exception, no handler of the loops catches it, __main__ closes conn.
Signalled == Dies("signal", "exited")

\* The program is started again: continuous_monitoring begins with the full
\* sync of the first wallet.
Reinvoke ==
    /\ at \in {"killed", "exited"}
    /\ at' = "idle"
    /\ pc' = "sync"
    /\ turn' = 1
    /\ UNCHANGED <<WALLETS, store, user_fills, last, pending, sent_trades, durable, died>>
    /\ UNCHANGED ledgerVars

NextCrash == Next \/ Killed \/ Signalled \/ Reinvoke

SpecCrash == InitCrash /\ [][NextCrash]_vars

\* ------------------------------------------------------------------------
\* The ledger chain: the classify / totals / net PnL unit applied, fill after
\* fill, to the accumulator of one (wallet, coin), for fills drawn from a
\* grid of sides, sizes, start positions and fees.  The fills need not form
\* a history the venue could have produced from a flat position: the feed
\* can begin in the middle of a position.
\* ------------------------------------------------------------------------
ChainWallet == "0xaa"

ChainFills(n) ==
    {Fill(n, "BTC", n, 100, sz, side, sp, 500, fee, "", NoLiquidation) :
        sz \in {2, 3}, side \in {"B", "A"}, sp \in {-3, -2, 0, 2, 3}, fee \in {-30, -10, 30}}
    \cup {Fill(n, "BTC", n, 100, sz, "B", -3, 500, 30, "Liquidated Cross Short",
                [method |-> "market", liquidatedUser |-> ChainWallet]) : sz \in {2, 3}}
    \cup {Fill(n, "BTC", n, 100, sz, "A", 3, 500, 30, "Liquidated Cross Long",
                [method |-> "market", liquidatedUser |-> ChainWallet]) : sz \in {2, 3}}
    \cup {Fill(n, "BTC", n, 100, 2, "X", 2, 500, 30, "", NoLiquidation),
          Fill(n, "BTC", n, 100, 0, "B", 2, 500, 30, "", NoLiquidation)}
    \cup {f \in FillsAA : f.time = n}

Reserve(t, s) == IF s = "long" THEN t.accumulated_fees_long ELSE t.accumulated_fees_short

\* The side a direction opens or adds to ("" if none), and the side it closes
OpenedSide(d) == IF d \in open_directions \/ d = "Close Short + Open Long" THEN "long"
                 ELSE IF d \in short_open_directions \/ d = "Close Long + Open Short" THEN "short"
                 ELSE ""
ClosedSide(d) == IF d \in close_directions \/ d = "Close Long + Open Short" THEN "long"
                 ELSE IF d \in short_close_directions \/ d = "Close Short + Open Long" THEN "short"
                 ELSE ""

\* One iteration of the reconciliation loop on the accumulator, in the full
\* sync ("sync") or in the incremental cycle ("incremental"); they differ by
\* the arguments they give calculate_net_pnl.  When the call raises, the
\* except clause skips the fill and nothing is recorded.
Applied(fill, path) ==
    LET bot_fee == calculate_bot_fee(fill.sz, fill.px)
        direction == get_direction(fill, ChainWallet)
        d == direction.tag
        total_fee == fill.fee + bot_fee
        closed_before == IF ClosedSide(d) = "long"
                         THEN Abs(totals.total_open_size_long - totals.total_close_size_long)
                         ELSE Abs(totals.total_open_size_short - totals.total_close_size_short)
        fee_in == IF fill.sz <= 0 \/ OpenedSide(d) = "" THEN 0
                  ELSE IF d \in combined_directions
                  THEN IF fill.sz - closed_before > 0
                       THEN total_fee - ((total_fee * closed_before) \div fill.sz)
                       ELSE 0
                  ELSE total_fee
    IN  \E nt \in {calculate_new_totals(totals, direction, fill.sz, fill.fee, bot_fee)} :
        \E net_pnl \in {IF path = "sync"
                        THEN calculate_net_pnl(fill.closedPnl, fill.fee, bot_fee,
                                               nt.realized_fees, PyStr(direction),
                                               nt.close_fee_only)
                        ELSE calculate_net_pnl(fill.closedPnl, fill.fee, bot_fee,
                                               nt.realized_fees, nt.close_fee_only,
                                               PyNone)} :
        IF ~net_pnl.ok THEN UNCHANGED <<entry, totals, added, released, charged>> ELSE
          /\ charged' = (charged /\ fill.sz > 0 /\ total_fee >= 0)
          /\ entry' = [fill |-> fill, direction |-> direction, before |-> totals,
                       new_totals |-> nt, bot_fee |-> bot_fee, net_pnl |-> net_pnl.v,
                       path |-> path]
          /\ totals' = [total_open_size_long |-> nt.total_open_size_long,
                        total_close_size_long |-> nt.total_close_size_long,
                        total_open_size_short |-> nt.total_open_size_short,
                        total_close_size_short |-> nt.total_close_size_short,
                        accumulated_fees_long |-> nt.accumulated_fees_long,
                        accumulated_fees_short |-> nt.accumulated_fees_short]
          /\ added' = [s \in Sides |-> added[s] + (IF OpenedSide(d) = s THEN fee_in ELSE 0)]
          /\ released' = [s \in Sides |->
                            released[s] + (IF ClosedSide(d) = s THEN nt.realized_fees ELSE 0)]

\* The loop over a feed of arbitrary fills of the coin
ApplyFill ==
    /\ entry = NoEntry
    /\ steps < MaxSteps
    /\ \E fill \in ChainFills(steps + 1), path \in {"sync", "incremental"} :
         Applied(fill, path)
    /\ steps' = steps + 1
    /\ UNCHANGED storeVars

\* The iteration is over; the loop takes the next fill
NextFill ==
    /\ entry # NoEntry
    /\ entry' = NoEntry
    /\ UNCHANGED <<totals, steps, added, released, charged>>
    /\ UNCHANGED storeVars

NextLedger == ApplyFill \/ NextFill

SpecLedger == Init /\ [][NextLedger]_vars

\* ------------------------------------------------------------------------
\* Aggregates of the reports: SELECT SUM(closedPnl), SUM(net_pnl)
\* ------------------------------------------------------------------------
RECURSIVE SumClosedPnl(_)
SumClosedPnl(rows) ==
    IF Len(rows) = 0 THEN 0 ELSE rows[Len(rows)].closedPnl + SumClosedPnl(SubSeq(rows, 1, Len(rows) - 1))

RECURSIVE SumNetPnl(_)
SumNetPnl(rows) ==
    IF Len(rows) = 0 THEN 0 ELSE rows[Len(rows)].net_pnl + SumNetPnl(SubSeq(rows, 1, Len(rows) - 1))

\* ========================================================================
\* Properties
\* ========================================================================

\* C1: every row whose direction is Open Long, Increase Long, Open Short or
\* Increase Short records net_pnl = 0, whichever path (full sync or
\* incremental cycle) appended it.
C1_ZeroPnlOnGrowth ==
    \A w \in Wallets : \A i \in 1..Len(store[w]) :
        store[w][i].direction.tag \in {"Open Long", "Increase Long", "Open Short", "Increase Short"}
            => store[w][i].net_pnl = 0

\* C2: in every reachable store, no two rows of one wallet carry the same
\* (oid, coin, timestamp, size, startPosition).
C2_DedupKeyUnique ==
    \A w \in Wallets : \A i, j \in 1..Len(store[w]) :
        (/\ store[w][i].oid = store[w][j].oid
         /\ store[w][i].coin = store[w][j].coin
         /\ store[w][i].timestamp = store[w][j].timestamp
         /\ store[w][i].size = store[w][j].size
         /\ store[w][i].startPosition = store[w][j].startPosition) => i = j

\* C2 witness: an incremental cycle received the same new fill twice in one
\* batch, stored it once and had the second INSERT rejected.
C2_Witness ==
    /\ at = "returned" /\ last.op = "incremental"
    /\ Len(last.feed) = 2 /\ last.feed[1] = last.feed[2]
    /\ last.fail = {} /\ last.ret = 1 /\ last.failed = {last.feed[1]}
    /\ Len(store[last.wallet]) = Len(last.before) + 1

\* C3: a reconciliation pass (incremental cycle or full sync) run when every
\* fetched fill is already recorded appends nothing, returns count 0, leaves
\* every existing row as it was and the sums of closedPnl and net_pnl
\* unchanged.
C3_Idempotent ==
    (/\ at = "returned" /\ last.fetched
     /\ \A k \in 1..Len(last.feed) : \E j \in 1..Len(last.before) :
            /\ last.before[j].oid = Str(last.feed[k].oid)
            /\ last.before[j].coin = last.feed[k].coin
            /\ last.before[j].timestamp = last.feed[k].time
            /\ last.before[j].size = last.feed[k].sz
            /\ last.before[j].startPosition = last.feed[k].startPosition)
    => /\ store[last.wallet] = last.before
       /\ last.ret = 0
       /\ SumClosedPnl(store[last.wallet]) = SumClosedPnl(last.before)
       /\ SumNetPnl(store[last.wallet]) = SumNetPnl(last.before)

\* C3 witness: an incremental cycle was run on a non-empty fetched list all of
\* whose fills were recorded, after which the table is the one it started from.
C3_Witness ==
    /\ at = "returned" /\ last.op = "incremental" /\ last.fetched
    /\ Len(last.feed) = 2 /\ last.feed[1] # last.feed[2]
    /\ Unstored(last.before, last.feed) = {}
    /\ last.ret = 0 /\ store[last.wallet] = last.before

\* C4: the table a reconciliation pass produces is the same for every order
\* in which the feed delivers the fetched fills.
C4_OrderIndependent ==
    (at = "returned" /\ last.fetched /\ last.fail = {})
    => \A q \in Feeds(last.wallet) :
          (/\ Len(q) = Len(last.feed)
           /\ \A k \in 1..Len(q) :
                Cardinality({i \in 1..Len(q) : q[i] = q[k]})
                  = Cardinality({i \in 1..Len(q) : last.feed[i] = q[k]}))
          => IF last.op = "sync"
             THEN process_new_trades(last.before, last.wallet, q, {}, {}).rows
                    = store[last.wallet]
             ELSE process_incremental_trades_for_wallet(last.before, last.wallet, q, {}).rows
                    = store[last.wallet]

\* C5: a fill whose unit failed in an incremental cycle is attempted again by
\* the next incremental cycle whose fetched list reports it.
C5_FailedFillRetried ==
    (at = "returned" /\ last.op = "incremental" /\ last.fetched)
    => last.retry \subseteq last.attempted

\* C6: after an incremental cycle without per-fill failure, the key of every
\* fetched fill is in the table, and the rows added are exactly the fetched
\* fills whose key was absent before the cycle.
C6_CycleComplete ==
    (at = "returned" /\ last.op = "incremental" /\ last.fetched /\ last.failed = {})
    => LET rows == store[last.wallet]
           Held(table, f) == \E j \in 1..Len(table) :
                                 /\ table[j].oid = Str(f.oid)
                                 /\ table[j].coin = f.coin
                                 /\ table[j].timestamp = f.time
                                 /\ table[j].size = f.sz
                                 /\ table[j].startPosition = f.startPosition
           fetched == {last.feed[k] : k \in 1..Len(last.feed)}
       IN  /\ \A f \in fetched : Held(rows, f)
           /\ Len(rows) - Len(last.before)
                = Cardinality({f \in fetched : ~Held(last.before, f)})

\* C7: a row classified 'Close Short + Open Long' or 'Close Long + Open
\* Short' records net_pnl = closedPnl - (closeFeeOnly + realizedFee), with
\* closeFeeOnly = totalFee * closeSize / size and closeSize the exposure of
\* the closed side before the fill.
C7_CombinedNetPnl ==
    \A w \in Wallets : \A i \in 1..Len(store[w]) :
        LET r == store[w][i]
            prev == get_current_totals(SubSeq(store[w], 1, i - 1), r.coin)
            closeSize == IF r.direction.tag = "Close Short + Open Long"
                         THEN Abs(prev.total_open_size_short - prev.total_close_size_short)
                         ELSE Abs(prev.total_open_size_long - prev.total_close_size_long)
            totalFee == r.fee + calculate_bot_fee(r.size, r.price)
            closeFeeOnly == (totalFee * closeSize) \div r.size
        IN  r.direction.tag \in combined_directions
              => r.net_pnl = r.closedPnl - (closeFeeOnly + r.realized_fees)

\* C8: an entry classified Close or Decrease (Long or Short, liquidation
\* variants included), recorded by either path, has net_pnl = closedPnl -
\* (exchangeFee + botFee + realizedFee), realizedFee being what the fill
\* released from the reserve of its side.
C8_ClosingNetPnl ==
    LET d == entry.direction.tag
        released_now == IF d \in close_directions
                        THEN entry.before.accumulated_fees_long
                             - entry.new_totals.accumulated_fees_long
                        ELSE entry.before.accumulated_fees_short
                             - entry.new_totals.accumulated_fees_short
    IN  entry # NoEntry /\ d \in close_directions \cup short_close_directions
          => /\ entry.net_pnl = entry.fill.closedPnl
                                  - (entry.fill.fee
                                     + calculate_bot_fee(entry.fill.sz, entry.fill.px)
                                     + entry.new_totals.realized_fees)
             /\ entry.new_totals.realized_fees = released_now

\* C8 witness: the long of 10 opened with total fee 1.00 has just been closed
\* in an incremental cycle by the fill with total fee 1.10 and closedPnl
\* 100.00: realizedFee 1.00 and net_pnl 97.90.
C8_Witness ==
    /\ entry # NoEntry
    /\ entry.path = "incremental"
    /\ entry.fill = FillCloseLong
    /\ entry.direction.tag = "Close Long"
    /\ entry.before.accumulated_fees_long = 100
    /\ entry.new_totals.realized_fees = 100
    /\ entry.net_pnl = 9790

\* C9: for each side, the realized fees ever released from the side plus the
\* reserve of the side equal the fees ever added to the reserve of the side.
C9_FeeConservation ==
    \A s \in Sides : released[s] + Reserve(totals, s) = added[s]

\* C9 witness: fees were added to a side, part of them has been released by a
\* partial close and part is still reserved.
C9_Witness ==
    \E s \in Sides : released[s] > 0 /\ Reserve(totals, s) > 0 /\ added[s] > released[s]

\* C10: in every entry, a side whose remaining size is 0 has a fee reserve
\* of 0.
C10_FlatSideSettled ==
    entry # NoEntry =>
        /\ entry.new_totals.remaining_open_size_long = 0
             => entry.new_totals.accumulated_fees_long = 0
        /\ entry.new_totals.remaining_open_size_short = 0
             => entry.new_totals.accumulated_fees_short = 0

\* C11: in every entry the recorded remaining size of each side is open -
\* close of the same entry (0 when within the tolerance of 0) and is not
\* below -1e-6, which on the grid of sizes means not negative.
C11_SizeConservation ==
    entry # NoEntry =>
        LET n == entry.new_totals
        IN  /\ n.remaining_open_size_long
                 = Clamp(n.total_open_size_long - n.total_close_size_long)
            /\ n.remaining_open_size_short
                 = Clamp(n.total_open_size_short - n.total_close_size_short)
            /\ n.remaining_open_size_long >= 0
            /\ n.remaining_open_size_short >= 0

\* C12: as long as every fill applied from the zero state had size > 0 and
\* exchange fee + bot fee >= 0, both fee reserves of every entry are >= 0.
C12_ReserveNonNegative ==
    entry # NoEntry /\ charged =>
        /\ entry.new_totals.accumulated_fees_long >= 0
        /\ entry.new_totals.accumulated_fees_short >= 0

\* C12 witness: a partial close has released part of a positive reserve and
\* the rest is still reserved, all fills so far having non-negative fees.
C12_Witness ==
    /\ entry # NoEntry
    /\ charged
    /\ entry.new_totals.realized_fees > 0
    /\ \E s \in Sides : /\ ClosedSide(entry.direction.tag) = s
                        /\ Reserve(entry.new_totals, s) > 0
                        /\ Reserve(entry.new_totals, s) < Reserve(entry.before, s)

\* C14: in an incremental cycle the failure of a unit leaves the other
\* candidates applied and appended in order: the table keeps its rows, every
\* candidate whose unit did not fail has a row added by the cycle, a fill
\* delivered once whose unit failed has none, the rows added are in timestamp
\* order, and the count returned is the number of rows added.
C14_FailureIsolated ==
    (at = "returned" /\ last.op = "incremental" /\ last.fetched) =>
        LET rows == store[last.wallet]
            n0 == Len(last.before)
            once(f) == Cardinality({i \in 1..Len(last.feed) : last.feed[i] = f}) = 1
            appended(f) == \E j \in (n0 + 1)..Len(rows) :
                              KeyMatches(rows[j], Str(f.oid), f.coin, f.time, f.sz,
                                         f.startPosition)
        IN  /\ Len(rows) >= n0
            /\ SubSeq(rows, 1, n0) = last.before
            /\ last.ret = Len(rows) - n0
            /\ \A f \in last.attempted \ last.failed : appended(f)
            /\ \A f \in last.failed : once(f) => ~appended(f)
            /\ \A i, j \in (n0 + 1)..Len(rows) :
                  i < j => rows[i].timestamp <= rows[j].timestamp

\* C14 witness: the unit of a fill failed and a later candidate of the same
\* batch was appended and counted.
C14_Witness ==
    /\ at = "returned"
    /\ last.op = "incremental"
    /\ last.ret >= 1
    /\ \E f \in last.failed : \E g \in last.attempted \ last.failed : g.time > f.time

\* C15: an incremental cycle whose fetch raises or returns an empty list
\* returns 0 and leaves the table as it was, and the monitoring goes on: the
\* loop returns to the point where the next cycle fetches again.
C15_FetchFailure ==
    /\ []((at = "returned" /\ last.op = "incremental"
            /\ (~last.fetched \/ last.feed = <<>>))
           => (last.ret = 0 /\ store[last.wallet] = last.before /\ pc = "monitor"))
    /\ [][(at = "returned" /\ last.op = "incremental"
            /\ (~last.fetched \/ last.feed = <<>>))
           => (at' = "idle" /\ pc' = "monitor" /\ store' = store)]_vars

\* C15 witness: the fetch of an incremental cycle raised while the table
\* held rows.
C15_Witness ==
    /\ at = "returned"
    /\ last.op = "incremental"
    /\ ~last.fetched
    /\ Len(store[last.wallet]) > 0

\* C17: every step keeps the rows of every table as they are: the table
\* after the step starts with the rows it had before the step.
C17_AppendOnly ==
    [][\A w \in Wallets :
          /\ Len(store'[w]) >= Len(store[w])
          /\ SubSeq(store'[w], 1, Len(store[w])) = store[w]]_vars

\* C17 witness: a pass has added rows to a table that already held rows.
C17_Witness ==
    /\ at = "returned"
    /\ last.fetched
    /\ Len(last.before) > 0
    /\ Len(store[last.wallet]) > Len(last.before)

\* C18: of two rows of the same table and coin, the one inserted first has
\* the smaller or equal timestamp.
C18_CausalOrder ==
    \A w \in Wallets : \A i, j \in 1..Len(store[w]) :
        (i < j /\ store[w][i].coin = store[w][j].coin)
            => store[w][i].timestamp <= store[w][j].timestamp

\* C16: a fill classified Invalid or Unknown whose unit did not fail has a
\* row in the table, and the sums of net_pnl and of closedPnl over the table
\* are what they are without that row.
C16_AuditedNotCounted ==
    /\ (at = "returned" /\ last.fetched) =>
          \A f \in last.attempted \ last.failed :
              get_direction(f, last.wallet).tag \in {"Invalid", "Unknown"}
                => Unstored(store[last.wallet], <<f>>) = {}
    /\ \A w \in Wallets : \A i \in 1..Len(store[w]) :
          store[w][i].direction.tag \in {"Invalid", "Unknown"}
            => LET others == SubSeq(store[w], 1, i - 1)
                             \o SubSeq(store[w], i + 1, Len(store[w]))
               IN  /\ SumNetPnl(store[w]) = SumNetPnl(others)
                   /\ SumClosedPnl(store[w]) = SumClosedPnl(others)

\* C20: a step changes neither the table nor the sent_trades of a wallet
\* other than the one being handled, and the table a pass leaves for its
\* wallet is the one computed from the rows of that wallet, the fetched list
\* and the rejected INSERTs alone.
C20_AccountsIndependent ==
    /\ [][\A w \in Wallets :
            w # WALLETS[turn] => (store'[w] = store[w] /\ sent_trades'[w] = sent_trades[w])]_vars
    /\ []((at = "returned" /\ last.fetched)
           => store[last.wallet]
                = IF last.op = "sync"
                  THEN process_new_trades(last.before, last.wallet, last.feed, last.fail,
                                          {}).rows
                  ELSE process_incremental_trades_for_wallet(last.before, last.wallet,
                                                             last.feed, last.fail).rows)

\* C20 witness: a pass has added rows for a wallet while the table of the
\* other wallet held rows.
C20_Witness ==
    /\ at = "returned"
    /\ last.fetched
    /\ Len(store[last.wallet]) > Len(last.before)
    /\ \E w \in Wallets : w # last.wallet /\ Len(store[w]) > 0

\* C13: when the process was killed inside the loop over the fills of a
\* wallet and the program, started again from the rows that death left,
\* has handled the same fetched list without a rejected INSERT, the table
\* is the one the run would have left had it not been killed: same rows,
\* same totals and same net_pnl in each.
C13_CrashRecovery ==
    (/\ died.cause = "kill"
     /\ at = "returned"
     /\ last.op = "sync"
     /\ last.fetched
     /\ last.wallet = died.wallet
     /\ last.feed = died.feed
     /\ last.fail = {}
     /\ last.before = died.durable)
    => store[died.wallet]
         = IF died.op = "sync"
           THEN process_new_trades(died.before, died.wallet, died.feed, {}, died.sent).rows
           ELSE process_incremental_trades_for_wallet(died.before, died.wallet,
                                                      died.feed, {}).rows

\* C19: when a signal ended the process while the unit of a fill that the
\* table did not hold was in flight, the table holds the row of that fill
\* once the process has exited.
C19_UnitFinishesBeforeShutdown ==
    (/\ at = "exited"
     /\ died.cause = "signal"
     /\ Unstored(died.before, <<died.inflight>>) # {})
    => Unstored(store[died.wallet], <<died.inflight>>) = {}

\* ------------------------------------------------------------------------
\* The classifier alone: get_direction applied for wallet 0xaa to one fill
\* drawn from a grid of sizes, side markers, start positions, dir fields and
\* liquidation records.
\* ------------------------------------------------------------------------
ClassifierFills ==
    {Fill(1, "BTC", 1, 100, sz, side, sp, 0, 10, dir, liq) :
        sz \in {-1, 0, 1, 2, 3},
        side \in {"B", "A", "Buy", "Sell", "X", ""},
        sp \in -3..3,
        dir \in {"", "Liquidated Cross Long", "Liquidated Cross Short"},
        liq \in {NoLiquidation,
                 [method |-> "market", liquidatedUser |-> "0xaa"],
                 [method |-> "market", liquidatedUser |-> "0xAA"],
                 [method |-> "market", liquidatedUser |-> "0xdd"],
                 [method |-> "backstop", liquidatedUser |-> "0xaa"]}}

InitClassify ==
    /\ InitStore(<<ChainWallet>>)
    /\ totals = ZeroTotals
    /\ steps = 0
    /\ entry \in {[NoEntry EXCEPT !.fill = f] : f \in ClassifierFills}
    /\ added = [s \in Sides |-> 0]
    /\ released = [s \in Sides |-> 0]
    /\ charged = TRUE

\* direction = get_direction(fill, wallet)
Classify ==
    /\ steps = 0
    /\ steps' = 1
    /\ entry' = [entry EXCEPT !.direction = get_direction(entry.fill, WALLETS[1]),
                              !.path = "classify"]
    /\ UNCHANGED <<totals, added, released, charged>>
    /\ UNCHANGED storeVars

SpecClassify == InitClassify /\ [][Classify]_vars

Classified == steps = 1 /\ entry.path = "classify"
IsBuy(fill) == Lower(fill.side) \in {"b", "buy"}
IsSell(fill) == Lower(fill.side) \in {"a", "sell"}
NewPosition(fill) == fill.startPosition + (IF IsBuy(fill) THEN fill.sz ELSE 0 - fill.sz)
OwnLiquidation(fill) ==
    /\ fill.liquidation.method = "market"
    /\ fill.liquidation.liquidatedUser \in {"0xaa", "0xAA"}

\* C21: for a fill of size > 0, side buy or sell, that is not a liquidation
\* of the monitored wallet, the tag is Open (Long for a buy, Short for a
\* sell) from a zero start position, Increase when the position keeps its
\* sign and grows, Close when the new position is zero, Decrease when it
\* keeps its sign and shrinks, and the combined tag when the sign flips.
C21_PositionAlgebra ==
    (/\ Classified
     /\ entry.fill.sz > 0
     /\ IsBuy(entry.fill) \/ IsSell(entry.fill)
     /\ ~OwnLiquidation(entry.fill))
    => LET sp == entry.fill.startPosition
           np == NewPosition(entry.fill)
           tag == entry.direction.tag
       IN  /\ sp = 0 => tag = (IF IsBuy(entry.fill) THEN "Open Long" ELSE "Open Short")
           /\ (sp * np > 0 /\ Abs(np) > Abs(sp))
                => tag = (IF sp > 0 THEN "Increase Long" ELSE "Increase Short")
           /\ (sp # 0 /\ np = 0)
                => tag = (IF sp > 0 THEN "Close Long" ELSE "Close Short")
           /\ (sp * np > 0 /\ Abs(np) < Abs(sp))
                => tag = (IF sp > 0 THEN "Decrease Long" ELSE "Decrease Short")
           /\ sp * np < 0
                => tag = (IF sp > 0 THEN "Close Long + Open Short"
                          ELSE "Close Short + Open Long")

\* C21 witness: a fill in which another user is liquidated flips a short of
\* the wallet into a long and is tagged by the position algebra.
C21_Witness ==
    /\ Classified
    /\ entry.fill.liquidation = [method |-> "market", liquidatedUser |-> "0xdd"]
    /\ entry.fill.startPosition < 0
    /\ NewPosition(entry.fill) > 0
    /\ entry.direction.tag = "Close Short + Open Long"

\* C22: for a fill of size > 0 that is a market liquidation of the monitored
\* wallet, the tag is the liquidation Close when size equals |startPosition|
\* and the partial-liquidation Decrease otherwise, on the side the dir field
\* names, or the side of the start position when it names none.
C22_LiquidationTag ==
    (Classified /\ entry.fill.sz > 0 /\ OwnLiquidation(entry.fill))
    => LET f == entry.fill
           side == IF f.dir = "Liquidated Cross Long" THEN "Long"
                   ELSE IF f.dir = "Liquidated Cross Short" THEN "Short"
                   ELSE IF f.startPosition >= 0 THEN "Long" ELSE "Short"
       IN  entry.direction.tag
             = IF f.sz = Abs(f.startPosition)
               THEN (IF side = "Long" THEN "Close Long (Liquidation)"
                     ELSE "Close Short (Liquidation)")
               ELSE (IF side = "Long" THEN "Decrease Long (Partial Liquidation)"
                     ELSE "Decrease Short (Partial Liquidation)")

\* C22 witness: a liquidation of the wallet, written with capitals in the
\* record, whose dir field names Long while the start position is short.
C22_Witness ==
    /\ Classified
    /\ entry.fill.liquidation = [method |-> "market", liquidatedUser |-> "0xAA"]
    /\ entry.fill.dir = "Liquidated Cross Long"
    /\ entry.fill.startPosition < 0
    /\ entry.fill.sz = 2
    /\ entry.direction.tag \in {"Close Long (Liquidation)",
                                 "Decrease Long (Partial Liquidation)"}

\* C23: a fill of size <= 0 is tagged Invalid whatever its side, start
\* position and liquidation record are.
C23_InvalidFirst ==
    (Classified /\ entry.fill.sz <= 0) => entry.direction.tag = "Invalid"

\* C23 witness: a market liquidation of the wallet with size 0 is Invalid.
C23_Witness ==
    /\ Classified
    /\ entry.fill.sz <= 0
    /\ OwnLiquidation(entry.fill)
    /\ entry.fill.startPosition # 0
    /\ entry.direction.tag = "Invalid"

\* C24: the tag is one of the eight position tags, the two combined tags,
\* the four liquidation tags, Invalid or Unknown; a fill of size > 0 whose
\* side is neither buy nor sell and that is not a liquidation of the wallet
\* is Unknown and carries dir, side, startPosition and sz.
C24_ClosedTagSet ==
    Classified
    => /\ entry.direction.tag
            \in {"Open Long", "Increase Long", "Close Long", "Decrease Long",
                 "Open Short", "Increase Short", "Close Short", "Decrease Short",
                 "Close Short + Open Long", "Close Long + Open Short",
                 "Close Long (Liquidation)", "Decrease Long (Partial Liquidation)",
                 "Close Short (Liquidation)", "Decrease Short (Partial Liquidation)",
                 "Invalid", "Unknown"}
       /\ (/\ entry.fill.sz > 0
           /\ ~IsBuy(entry.fill)
           /\ ~IsSell(entry.fill)
           /\ ~OwnLiquidation(entry.fill))
          => entry.direction = [tag |-> "Unknown", dir |-> entry.fill.dir,
                                side |-> Lower(entry.fill.side),
                                startPosition |-> entry.fill.startPosition,
                                sz |-> entry.fill.sz]
       /\ entry.direction.tag = "Unknown"
          => (entry.fill.sz > 0 /\ ~IsBuy(entry.fill) /\ ~IsSell(entry.fill))

\* C24 witness: a fill with side marker X, a dir field and a start position
\* is Unknown.
C24_Witness ==
    /\ Classified
    /\ entry.direction.tag = "Unknown"
    /\ entry.fill.side = "X"
    /\ entry.fill.dir # ""
    /\ entry.fill.startPosition # 0

\* The counters of one side of an accumulator, and the other side
OpenSize(t, s) == IF s = "long" THEN t.total_open_size_long ELSE t.total_open_size_short
CloseSize(t, s) == IF s = "long" THEN t.total_close_size_long ELSE t.total_close_size_short
Opposite(s) == IF s = "long" THEN "short" ELSE "long"
SideUnchanged(before, after, s) ==
    /\ OpenSize(after, s) = OpenSize(before, s)
    /\ CloseSize(after, s) = CloseSize(before, s)
    /\ Reserve(after, s) = Reserve(before, s)

\* C25: a fill of size > 0 tagged Open or Increase on a side adds its size
\* to the open counter of the side and exchange fee + bot fee to the reserve
\* of the side, releases nothing, and leaves the close counter of the side
\* and the three accumulators of the other side as they were; Open Long 10
\* with a fee of 1.00 from the zero state gives open 10 and reserve 1.00.
C25_OpenTransition ==
    (/\ entry # NoEntry
     /\ entry.fill.sz > 0
     /\ entry.direction.tag \in open_directions \cup short_open_directions)
    => LET s == OpenedSide(entry.direction.tag)
           b == entry.before
           n == entry.new_totals
       IN  /\ OpenSize(n, s) = OpenSize(b, s) + entry.fill.sz
           /\ Reserve(n, s) = Reserve(b, s) + entry.fill.fee + entry.bot_fee
           /\ n.realized_fees = 0
           /\ CloseSize(n, s) = CloseSize(b, s)
           /\ SideUnchanged(b, n, Opposite(s))
           /\ (b = ZeroTotals /\ entry.fill = FillOpenLong)
                => (n.total_open_size_long = 10 /\ n.accumulated_fees_long = 100)

\* C25 witness: an Increase on a side that already had an open size and a
\* reserve, the other side holding a reserve too.
C25_Witness ==
    /\ entry # NoEntry
    /\ entry.direction.tag \in {"Increase Long", "Increase Short"}
    /\ \E s \in Sides :
          /\ OpenedSide(entry.direction.tag) = s
          /\ OpenSize(entry.before, s) > 0
          /\ Reserve(entry.before, s) > 0
          /\ Reserve(entry.before, Opposite(s)) > 0
          /\ Reserve(entry.new_totals, s) > Reserve(entry.before, s)

\* C26: a fill of size > 0 tagged Close or Decrease on a side (liquidation
\* tags included) adds its size to the close counter of the side; with r =
\* open - close of the side before, it releases reserve * min(size / r, 1)
\* from the reserve of the side when r > 0 and the reserve is > 0 (rounded
\* down to a hundredth), and nothing otherwise; the open counter of the side
\* and the other side are unchanged and the fee of the fill enters no
\* reserve.
C26_CloseTransition ==
    (/\ entry # NoEntry
     /\ entry.fill.sz > 0
     /\ entry.direction.tag \in close_directions \cup short_close_directions)
    => LET s == ClosedSide(entry.direction.tag)
           b == entry.before
           n == entry.new_totals
           size == entry.fill.sz
           r == OpenSize(b, s) - CloseSize(b, s)
           f == n.realized_fees
       IN  /\ CloseSize(n, s) = CloseSize(b, s) + size
           /\ OpenSize(n, s) = OpenSize(b, s)
           /\ SideUnchanged(b, n, Opposite(s))
           /\ Reserve(n, s) = Reserve(b, s) - f
           /\ IF r > 0 /\ Reserve(b, s) > 0
              THEN IF size >= r THEN f = Reserve(b, s)
                   ELSE f * r <= Reserve(b, s) * size /\ Reserve(b, s) * size < (f + 1) * r
              ELSE f = 0

\* C26 witness: a Decrease smaller than the remaining size releases part of
\* a positive reserve.
C26_Witness ==
    /\ entry # NoEntry
    /\ entry.direction.tag \in {"Decrease Long", "Decrease Short"}
    /\ entry.new_totals.realized_fees > 0
    /\ \E s \in Sides :
          /\ ClosedSide(entry.direction.tag) = s
          /\ entry.fill.sz < OpenSize(entry.before, s) - CloseSize(entry.before, s)
          /\ Reserve(entry.new_totals, s) > 0

\* C27: a fill tagged 'Close X + Open Y' closes |open_X - close_X| and opens
\* the rest of its size: afterwards the remaining size of X is 0 and the
\* reserve of X is 0, the former reserve of X being the realized fees; when
\* the rest is > 0 the open counter of Y grows by it and the reserve of Y by
\* fee - fee * closeSize / size; close_fee_only is fee * closeSize / size.
C27_CombinedTransition ==
    (entry # NoEntry /\ entry.direction.tag \in combined_directions)
    => LET x == ClosedSide(entry.direction.tag)
           y == OpenedSide(entry.direction.tag)
           b == entry.before
           n == entry.new_totals
           size == entry.fill.sz
           total_fee == entry.fill.fee + entry.bot_fee
           close_size == Abs(OpenSize(b, x) - CloseSize(b, x))
           open_size == size - close_size
           close_fee == (total_fee * close_size) \div size
       IN  /\ OpenSize(n, x) - CloseSize(n, x) = 0
           /\ Reserve(n, x) = 0
           /\ n.realized_fees = Reserve(b, x)
           /\ open_size > 0 => /\ OpenSize(n, y) = OpenSize(b, y) + open_size
                               /\ Reserve(n, y) = Reserve(b, y) + total_fee - close_fee
           /\ n.close_fee_only = PyFloat(close_fee)

\* C28: for a fill tagged Unknown or Invalid the six accumulators of the
\* entry are those of the entry before it (zero if there is none) and the
\* realized fees are 0.
C28_UnknownInvalidNoChange ==
    (entry # NoEntry /\ entry.direction.tag \in {"Unknown", "Invalid"})
    => /\ \A s \in Sides : SideUnchanged(entry.before, entry.new_totals, s)
       /\ entry.new_totals.realized_fees = 0
       /\ entry.before = totals

\* C28 witness: an Unknown fill of size > 0 applied to an accumulator that
\* holds an open size and a reserve.
C28_Witness ==
    /\ entry # NoEntry
    /\ entry.direction.tag = "Unknown"
    /\ entry.fill.sz > 0
    /\ \E s \in Sides : OpenSize(entry.before, s) > 0 /\ Reserve(entry.before, s) > 0

\* int(oid) of the digits stored in the oid column
RECURSIVE OidInt(_)
OidInt(digits) ==
    IF Len(digits) = 0 THEN 0
    ELSE 10 * OidInt(SubSeq(digits, 1, Len(digits) - 1)) + digits[Len(digits)]

\* C29: of two rows added by the same full sync or incremental cycle, the
\* one inserted first does not have the larger (timestamp, integer oid)
\* pair, whatever the order of the fetched list.
C29_ApplicationOrder ==
    (at = "returned" /\ last.fetched)
    => LET rows == store[last.wallet]
       IN  \A i, j \in (Len(last.before) + 1)..Len(rows) :
             i < j => \/ rows[i].timestamp < rows[j].timestamp
                      \/ /\ rows[i].timestamp = rows[j].timestamp
                         /\ OidInt(rows[i].oid) <= OidInt(rows[j].oid)

\* C30: with the watermark the largest timestamp of the rows of the wallet
\* (0 for an empty table), the candidates of an incremental cycle are the
\* fetched fills with timestamp >= watermark whose key the table does not
\* hold; a candidate, in particular one whose timestamp equals the
\* watermark, has a row after the cycle unless its unit failed, and a
\* fetched fill whose key the table held gets no further row.
C30_InclusiveWatermark ==
    (at = "returned" /\ last.op = "incremental" /\ last.fetched)
    => LET watermark == IF Len(last.before) = 0 THEN 0
                        ELSE Max({last.before[i].timestamp : i \in 1..Len(last.before)})
           fetched == {last.feed[i] : i \in 1..Len(last.feed)}
           rows == store[last.wallet]
           Held(table, f) == {j \in 1..Len(table) :
                                 /\ table[j].oid = Str(f.oid)
                                 /\ table[j].coin = f.coin
                                 /\ table[j].timestamp = f.time
                                 /\ table[j].size = f.sz
                                 /\ table[j].startPosition = f.startPosition}
           candidates == {f \in fetched : f.time >= watermark /\ Held(last.before, f) = {}}
       IN  /\ last.attempted = candidates
           /\ \A f \in candidates \ last.failed : Cardinality(Held(rows, f)) = 1
           /\ \A f \in fetched : Held(last.before, f) # {}
                                    => Held(rows, f) = Held(last.before, f)

\* C30 witness: a fill whose timestamp equals the largest stored timestamp
\* and whose key was not in the table has been appended by the cycle.
C30_Witness ==
    /\ at = "returned"
    /\ last.op = "incremental"
    /\ last.fetched
    /\ Len(last.before) > 0
    /\ Len(store[last.wallet]) > Len(last.before)
    /\ store[last.wallet][Len(store[last.wallet])].timestamp
         = get_last_trade_timestamp(last.before)

\* C31: while the handling of a wallet is in progress every step belongs to
\* it and ends it, the handling of a wallet begins only when none is in
\* progress, and when it begins to read the store every row the connection
\* holds has been committed (the passes before it have committed or rolled
\* back).
C31_NoOverlappingCycles ==
    /\ [][/\ at = "fetched" => (turn' = turn /\ pc' = pc /\ at' = "returned")
          /\ at' = "fetched" => at = "idle"]_vars
    /\ [](at = "fetched" => durable = store)

\* ------------------------------------------------------------------------
\* The ledger chain fed by the venue from a flat position: every fill
\* carries as startPosition the position the fill before it left.
\* ------------------------------------------------------------------------
VenueFills(n, position) ==
    {Fill(n, "BTC", n, 100, sz, side, position, 500, 30, "", NoLiquidation) :
        sz \in {1, 2, 3}, side \in {"B", "A"}}

ApplyVenueFill ==
    /\ steps < MaxSteps
    /\ \E fill \in VenueFills(steps + 1,
                              IF entry = NoEntry THEN 0 ELSE NewPosition(entry.fill)),
          path \in {"sync", "incremental"} :
         Applied(fill, path)
    /\ steps' = steps + 1
    /\ UNCHANGED storeVars

SpecChain == Init /\ [][ApplyVenueFill]_vars

\* C32: in a chain of non-liquidation fills that starts from the zero
\* ledger with startPosition 0 and in which every startPosition is the
\* position the fill before left, every entry has remaining long -
\* remaining short equal to startPosition + d of its fill, and one of the
\* two remaining sizes is 0.
C32_LedgerTracksPosition ==
    entry # NoEntry
    => /\ entry.new_totals.remaining_open_size_long
            - entry.new_totals.remaining_open_size_short = NewPosition(entry.fill)
       /\ \/ entry.new_totals.remaining_open_size_long = 0
          \/ entry.new_totals.remaining_open_size_short = 0
       /\ entry.before.total_open_size_long - entry.before.total_close_size_long
            - (entry.before.total_open_size_short - entry.before.total_close_size_short)
            = entry.fill.startPosition

\* C32 witness: the third fill of a chain flips a long position into a
\* short one.
C32_Witness ==
    /\ steps = 3
    /\ entry # NoEntry
    /\ entry.fill.time = 3
    /\ entry.direction.tag = "Close Long + Open Short"
    /\ entry.before.total_close_size_long > 0
    /\ entry.new_totals.remaining_open_size_short > 0

\* ------------------------------------------------------------------------
\* Fee accounting over the rows of a table
\* ------------------------------------------------------------------------
\* The signed size of the fill of a row
RowDelta(row) == IF Lower(row.side) \in {"b", "buy"} THEN row.size ELSE 0 - row.size

\* The rows are a chain that starts flat: the first startPosition is 0 and
\* every later one is the position the row before left.
ConsistentChain(rows) ==
    /\ Len(rows) > 0
    /\ rows[1].startPosition = 0
    /\ \A i \in 1..(Len(rows) - 1) :
         /\ rows[i + 1].coin = rows[i].coin
         /\ rows[i + 1].startPosition = rows[i].startPosition + RowDelta(rows[i])

\* The last row leaves no open size on either side
FlatAgain(rows) ==
    /\ rows[Len(rows)].remaining_open_size_long = 0
    /\ rows[Len(rows)].remaining_open_size_short = 0

\* The exchange fee and the bot fee of every fill of the rows
RECURSIVE SumFees(_)
SumFees(rows) ==
    IF Len(rows) = 0 THEN 0
    ELSE rows[Len(rows)].fee + calculate_bot_fee(rows[Len(rows)].size, rows[Len(rows)].price)
         + SumFees(SubSeq(rows, 1, Len(rows) - 1))

\* C33: when the rows of a table are a consistent chain that starts flat
\* and ends flat, the sum of their net PnL is the sum of their closedPnl
\* minus the sum of the exchange fee and bot fee of every fill.
C33_FeeAccounting ==
    \A w \in Wallets :
        (ConsistentChain(store[w]) /\ FlatAgain(store[w]))
        => SumNetPnl(store[w]) = SumClosedPnl(store[w]) - SumFees(store[w])

\* The entries of a table without the two fee columns that only the
\* incremental cycle fills: key, direction, accumulator snapshots,
\* realized fees and net PnL, in id order.
LedgerEntries(rows) ==
    [i \in 1..Len(rows) |-> [rows[i] EXCEPT !.exchange_fee = 0, !.bot_fee = 0]]

\* C34: from an empty table and the same fetched fills, the full sync and
\* the incremental cycle append the same entries in the same order, with
\* the same direction, accumulator snapshots, realized fees and net PnL.
C34_PathEquivalence ==
    (at = "returned" /\ last.fetched /\ last.before = <<>> /\ last.fail = {})
    => /\ LedgerEntries(process_new_trades(<<>>, last.wallet, last.feed, {}, {}).rows)
          = LedgerEntries(process_incremental_trades_for_wallet(<<>>, last.wallet,
                                                                last.feed, {}).rows)
       /\ LedgerEntries(store[last.wallet])
          = LedgerEntries(process_new_trades(<<>>, last.wallet, last.feed, {}, {}).rows)

\* A fill the incremental unit has to accept: a positive size and a buy
\* or sell side
WellFormed(fill) == fill.sz > 0 /\ (IsBuy(fill) \/ IsSell(fill))

\* C35: when no INSERT is rejected by the store, every well-formed
\* candidate of an incremental cycle (size > 0, side buy or sell, key not
\* stored) is appended by the cycle: its unit raised no error.
C35_NoWellFormedFillRejected ==
    (at = "returned" /\ last.op = "incremental" /\ last.fetched /\ last.fail = {})
    => \A f \in Unstored(last.before, last.feed) :
           (WellFormed(f) /\ f.time >= get_last_trade_timestamp(last.before))
           => /\ Unstored(store[last.wallet], <<f>>) = {}
              /\ get_direction(f, last.wallet).tag \notin {"Unknown", "Invalid"}

\* C36: a fill of non-negative fee tagged 'Close X + Open Y' is split into
\* a close size between 0 and its size and the rest: the amounts added to
\* the close counter of X and the open counter of Y sum to the size, and
\* close_fee_only plus the amount added to the reserve of Y is the fee of
\* the fill, both parts being >= 0.
C36_CombinedConserves ==
    (/\ entry # NoEntry
     /\ entry.direction.tag \in combined_directions
     /\ entry.fill.fee + entry.bot_fee >= 0)
    => LET x == ClosedSide(entry.direction.tag)
           y == OpenedSide(entry.direction.tag)
           b == entry.before
           n == entry.new_totals
           close_size == Abs(OpenSize(b, x) - CloseSize(b, x))
           close_added == CloseSize(n, x) - CloseSize(b, x)
           open_added == OpenSize(n, y) - OpenSize(b, y)
           reserve_added == Reserve(n, y) - Reserve(b, y)
       IN  /\ 0 <= close_size /\ close_size <= entry.fill.sz
           /\ close_added = close_size
           /\ close_added + open_added = entry.fill.sz
           /\ n.close_fee_only.t = "float"
           /\ n.close_fee_only.v + reserve_added = entry.fill.fee + entry.bot_fee
           /\ n.close_fee_only.v >= 0
           /\ reserve_added >= 0

\* C37: every closing fill for which an incremental cycle sent its trade
\* notification has its row in the committed table, also when the process
\* ends before the cycle returns.
C37_NotificationsFollowDurable ==
    at \in {"killed", "exited"}
    => \A f \in died.notified : Unstored(durable[died.wallet], <<f>>) = {}

\* The lists of calculate_new_totals, one per branch
BranchLists == {open_directions, close_directions, short_open_directions,
                short_close_directions, combined_directions}

\* C38: the tag of every entry of size > 0 that is neither Unknown nor
\* Invalid is in exactly one of the five lists of calculate_new_totals, and
\* the entry changed the accumulators of a side.
C38_TagCoverage ==
    (/\ entry # NoEntry
     /\ entry.fill.sz > 0
     /\ entry.direction.tag \notin {"Unknown", "Invalid"})
    => /\ Cardinality({l \in BranchLists : entry.direction.tag \in l}) = 1
       /\ \E s \in Sides : ~SideUnchanged(entry.before, entry.new_totals, s)

\* C38 witness: a liquidation of the wallet's own long position, tagged by
\* the liquidation branch of the classifier, moved the close counter of the
\* long side.
C38_Witness ==
    /\ entry # NoEntry
    /\ entry.fill.liquidation.method = "market"
    /\ entry.direction.tag \in {"Close Long (Liquidation)",
                                "Decrease Long (Partial Liquidation)"}
    /\ entry.new_totals.total_close_size_long
         = entry.before.total_close_size_long + entry.fill.sz

====
